---- MODULE Spec2Model ----
(***************************************************************************)
(* Automation task execution engine of tg-business-suite.                  *)
(*                                                                         *)
(* The database holds automation tasks and Telegram accounts.  The API     *)
(* creates and cancels tasks, the Celery queue carries one message per     *)
(* dispatch, and workers run execute_automation_task.  Every worker works  *)
(* on its own ORM session: the objects it loaded are private copies, and a *)
(* commit writes the attributes the worker changed on its copy.            *)
(***************************************************************************)
EXTENDS Integers, FiniteSets, Sequences, TLC

\* ---------------------------------------------------------------- bounds
MaxDailyLimit == 1
MaxFaults == 3
MaxTime == 2
MaxBatch == 2
MaxLen == 3

\* ------------------------------------------------------ program constants
MAX_RETRY_ATTEMPTS == 3
max_retries == 3
MIN_DELAY_SECONDS == 5
MAX_DELAY_SECONDS == 30
NonceLength == 12
TagLength == 16

\* Task ids, in the order the rows are created.
Tasks == {1, 2}
Accounts == {"a1"}

\* Organizations and the accounts of the deployments that have two tenants.
Orgs == {"o1", "o2"}
AllAccounts == {"a1", "a2"}
Users == {"u1", "u2"}

TaskStatus == {"pending", "running", "completed", "failed", "cancelled"}
AccountStatus ==
    {"active", "inactive", "banned", "auth_required", "connection_error", "pending"}

\* Payloads the API is called with.
PayloadInputs ==
    { [type |-> "message_send", fields |-> {"message", "peer_id"}],
      [type |-> "message_send", fields |-> {"message", "peer_ids"}] }

\* Status values update_account is called with.
StatusInputs == {"active", "inactive"}

VARIABLES
    tasks,        \* automation_tasks table: task id -> row
    created,      \* ids of the rows that exist
    accounts,     \* telegram_accounts table: account id -> row
    queue,        \* Celery messages waiting for a worker
    pc,           \* task -> position of the worker executing it
    wmsg,         \* task -> the message that worker is executing
    wtask,        \* task -> the worker session's copy of the task row
    wacct,        \* task -> the worker session's copy of the account row
    wresult,      \* task -> result_data of execute_telegram_action
    wdisc,        \* task -> client.disconnect() calls in this attempt
    wclient,      \* task -> state of the TelegramClient of this attempt
    wexc,         \* task -> the exception the attempt raised
    wdelay,       \* task -> seconds of the pacing delay of this attempt
    cancel,       \* the cancel request being served by the API
    faults,       \* faults so far of the vault, the client and the queue
    done_today,   \* account -> executions completed since the last reset
    now,          \* datetime.utcnow()
    api,          \* the task creation request being served by the API
    activity_log, \* activity_logs table: the actions logged, in order
    cache,        \* TelegramService._clients: account -> cached client
    req,          \* the account request being served by the API
    hc,           \* the check_account_health run in progress
    vault         \* a session on its way through the encryption service

vars == << tasks, created, accounts, queue, pc, wmsg, wtask, wacct,
           wresult, wdisc, wclient, wexc, wdelay, cancel, faults, done_today,
           now, api, activity_log, cache, req, hc, vault >>

\* The Telegram service, the health check and the encryption service.
rest == << cache, req, hc, vault >>

\* What the execution engine has no part in.
env == << now, api, activity_log, cache, req, hc, vault >>

NoTask ==
    [ account_id |-> "a1", type |-> "message_send", fields |-> {},
      status |-> "pending", retry_count |-> 0, error_message |-> "none",
      progress |-> 0, started_at |-> FALSE, completed_at |-> FALSE,
      organization_id |-> "o1", user_id |-> "u1", scheduled_for |-> 0 ]

NoAccount ==
    [ status |-> "pending", actions_today |-> 0, daily_limit |-> 1,
      session_ok |-> TRUE, organization_id |-> "o1", updated_at |-> 0 ]

\* A message: eta is the time before which no worker receives it.
NoMsg == [ task |-> 0, retries |-> 0, eta |-> 0 ]

\* No creation request is being served.
NoApi ==
    [ pc |-> "idle", op |-> "none", user |-> "u1", ids |-> << >>,
      payload |-> [ type |-> "message_send", fields |-> {} ],
      scheduled_for |-> 0, before |-> {}, sent |-> 0 ]

NoCancel == [ pc |-> "idle", task |-> 0, seen |-> "none" ]

\* No account request is being served.
NoReq ==
    [ pc |-> "idle", op |-> "none", account |-> "a1", result |-> "none",
      loaded |-> NoAccount, calls |-> 0, again |-> FALSE, open |-> 0 ]

\* No health check is running.
NoHc ==
    [ pc |-> "idle", account |-> "a1", client |-> "none", result |-> "none",
      loaded |-> NoAccount ]

\* Nothing is in the encryption service.
NoVault ==
    [ pc |-> "idle", data |-> << >>, nonce |-> << >>, token |-> << >>,
      out |-> << >>, raised |-> "none" ]

\* The components that hold nothing at the start.
InitRest ==
    /\ activity_log = << >>
    /\ cache = [ a \in AllAccounts |-> "none" ]
    /\ req = NoReq
    /\ hc = NoHc
    /\ vault = NoVault

\* The ORM's flush: an UPDATE carries the attributes whose value on the
\* session's object differs from the value the session last loaded or wrote.
Flush(row, loaded, obj) ==
    [ f \in DOMAIN row |-> IF obj[f] # loaded[f] THEN obj[f] ELSE row[f] ]

\* updated_at of an account has onupdate=datetime.utcnow: an UPDATE of the
\* row that does not set it sets it to the current time.
Touch(row, new) ==
    IF new = row THEN row ELSE [ new EXCEPT !.updated_at = now ]

Init ==
    /\ tasks = [ t \in Tasks |-> NoTask ]
    /\ created = {}
    /\ accounts \in { [ a \in Accounts |->
                          [ status |-> "active", actions_today |-> 0,
                            daily_limit |-> k, session_ok |-> ok,
                            organization_id |-> "o1", updated_at |-> 0 ] ]
                      : k \in 1..MaxDailyLimit, ok \in BOOLEAN }
    /\ queue = {}
    /\ pc = [ w \in Tasks |-> "idle" ]
    /\ wmsg = [ w \in Tasks |-> NoMsg ]
    /\ wtask = [ w \in Tasks |-> NoTask ]
    /\ wacct = [ w \in Tasks |-> NoAccount ]
    /\ wresult = [ w \in Tasks |-> "none" ]
    /\ wdisc = [ w \in Tasks |-> 0 ]
    /\ wclient = [ w \in Tasks |-> "none" ]
    /\ wexc = [ w \in Tasks |-> "none" ]
    /\ wdelay = [ w \in Tasks |-> 0 ]
    /\ cancel = NoCancel
    /\ faults = 0
    /\ done_today = [ a \in Accounts |-> 0 ]
    /\ now = 0
    /\ api = NoApi
    /\ InitRest

\* POST /tasks without scheduled_for, by a user of the account's
\* organization: the row is committed as pending, one message is sent and
\* the activity is logged.
CreateTask(a, p) ==
    /\ Cardinality(created) < Cardinality(Tasks)
    /\ LET t == Cardinality(created) + 1 IN
        /\ created' = created \cup {t}
        /\ tasks' = [ tasks EXCEPT ![t] =
                        [ NoTask EXCEPT !.account_id = a, !.type = p.type,
                                        !.fields = p.fields,
                                        !.organization_id =
                                            accounts[a].organization_id ] ]
        /\ queue' = queue \cup { [ task |-> t, retries |-> 0, eta |-> 0 ] }
    /\ activity_log' = Append(activity_log, "create_task")
    /\ UNCHANGED << accounts, pc, wmsg, wtask, wacct, wresult, wdisc,
                    wclient, wexc, wdelay, cancel, faults, done_today >>
    /\ UNCHANGED << now, api >>
    /\ UNCHANGED rest

\* ------------------------------------------------- execute_automation_task

\* The worker leaves execute_automation_task: its session is closed.
Release(w) ==
    /\ pc' = [ pc EXCEPT ![w] = "idle" ]
    /\ wmsg' = [ wmsg EXCEPT ![w] = NoMsg ]
    /\ wtask' = [ wtask EXCEPT ![w] = NoTask ]
    /\ wacct' = [ wacct EXCEPT ![w] = NoAccount ]
    /\ wresult' = [ wresult EXCEPT ![w] = "none" ]
    /\ wdisc' = [ wdisc EXCEPT ![w] = 0 ]
    /\ wclient' = [ wclient EXCEPT ![w] = "none" ]
    /\ wexc' = [ wexc EXCEPT ![w] = "none" ]
    /\ wdelay' = [ wdelay EXCEPT ![w] = 0 ]

\* A worker takes a message whose eta has come and loads the task row.
Pickup(w, m) ==
    /\ pc[w] = "idle"
    /\ w = m.task
    /\ m \in queue
    /\ m.eta <= now
    /\ queue' = queue \ {m}
    /\ IF m.task \in created
       THEN /\ pc' = [ pc EXCEPT ![w] = "loaded" ]
            /\ wmsg' = [ wmsg EXCEPT ![w] = m ]
            /\ wtask' = [ wtask EXCEPT ![w] = tasks[m.task] ]
            /\ UNCHANGED << wacct, wresult, wdisc, wclient, wexc, wdelay >>
       ELSE Release(w)
    /\ UNCHANGED << tasks, created, accounts, cancel, faults, done_today >>
    /\ UNCHANGED env

\* The error_message of a failed eligibility check, "none" when it passes.
EligibilityError(a) ==
    IF a \notin DOMAIN accounts THEN "Account not found"
    ELSE IF accounts[a].status # "active"
         THEN "Account is " \o accounts[a].status
    ELSE IF accounts[a].actions_today >= accounts[a].daily_limit
         THEN "Daily limit exceeded"
    ELSE "none"

\* The worker loads the account, checks it and either fails the task or
\* commits it as running.
CheckEligibility(w) ==
    /\ pc[w] = "loaded"
    /\ LET t == wmsg[w].task
           a == wtask[w].account_id
           err == EligibilityError(a)
           failed == [ wtask[w] EXCEPT !.status = "failed",
                                       !.error_message = err ]
           running == [ wtask[w] EXCEPT !.status = "running",
                                        !.started_at = TRUE ]
       IN IF err # "none"
          THEN /\ tasks' = [ tasks EXCEPT ![t] = Flush(@, wtask[w], failed) ]
               /\ Release(w)
          ELSE /\ tasks' = [ tasks EXCEPT ![t] = Flush(@, wtask[w], running) ]
               /\ wtask' = [ wtask EXCEPT ![w] = running ]
               /\ wacct' = [ wacct EXCEPT ![w] = accounts[a] ]
               /\ pc' = [ pc EXCEPT ![w] = "running" ]
               /\ UNCHANGED << wmsg, wresult, wdisc, wclient, wexc, wdelay >>
    /\ UNCHANGED << created, accounts, queue, cancel, faults, done_today >>
    /\ UNCHANGED env

\* The attempt raises e; a constructed client is disconnected on the way out.
Raise(w, e, client) ==
    /\ pc' = [ pc EXCEPT ![w] = "except" ]
    /\ wexc' = [ wexc EXCEPT ![w] = e ]
    /\ wclient' = [ wclient EXCEPT ![w] = client ]
    /\ wdisc' = [ wdisc EXCEPT ![w] = IF client = "closed" THEN @ + 1 ELSE @ ]

\* execute_telegram_action returns r; the client is disconnected.
Return(w, r) ==
    /\ pc' = [ pc EXCEPT ![w] = "finish" ]
    /\ wresult' = [ wresult EXCEPT ![w] = r ]
    /\ wclient' = [ wclient EXCEPT ![w] = "closed" ]
    /\ wdisc' = [ wdisc EXCEPT ![w] = @ + 1 ]

\* The sleep drawn without its lower end.
RandomDelay_zero == {0, MAX_DELAY_SECONDS}

\* random.randint(MIN_DELAY_SECONDS, MAX_DELAY_SECONDS), at its two ends.
RandomDelay == {MIN_DELAY_SECONDS, MAX_DELAY_SECONDS}

\* Decrypt the session, construct the client, connect it and ask whether
\* the user is authorized; if so draw the pacing delay and start to sleep.
Connect(w, outcome) ==
    /\ pc[w] = "running"
    /\ IF ~ wacct[w].session_ok
       THEN /\ outcome = "authorized"
            /\ Raise(w, "Decryption failed", "none")
            /\ UNCHANGED << wresult, wdelay, faults >>
       ELSE CASE outcome = "authorized" ->
                   /\ pc' = [ pc EXCEPT ![w] = "delaying" ]
                   /\ wclient' = [ wclient EXCEPT ![w] = "connected" ]
                   /\ \E delay \in RandomDelay :
                        wdelay' = [ wdelay EXCEPT ![w] = delay ]
                   /\ UNCHANGED << wresult, wdisc, wexc, faults >>
              [] outcome = "not_authorized" ->
                   /\ Return(w, "Not authorized")
                   /\ UNCHANGED << wexc, wdelay, faults >>
              [] outcome = "client_error" ->
                   /\ faults < MaxFaults
                   /\ faults' = faults + 1
                   /\ Raise(w, "Telegram error", "none")
                   /\ UNCHANGED << wresult, wdelay >>
              [] outcome = "connect_error" ->
                   /\ faults < MaxFaults
                   /\ faults' = faults + 1
                   /\ Raise(w, "Telegram error", "closed")
                   /\ UNCHANGED << wresult, wdelay >>
    /\ UNCHANGED << tasks, created, accounts, queue, wmsg, wtask, wacct,
                    cancel, done_today >>
    /\ UNCHANGED env

\* The payload fields the dispatch of a task type requires to be present.
Required(type) ==
    CASE type = "profile_photo" -> {"photo_path"}
      [] type = "bio_update" -> {"bio"}
      [] type = "username_update" -> {"username"}
      [] type = "media_send" -> {"media_path", "peer_id"}
      [] type = "message_send" -> {"message", "peer_id"}

\* asyncio.sleep(delay) returns: delay seconds have passed.
Sleep(w) ==
    /\ pc[w] = "delaying"
    /\ pc' = [ pc EXCEPT ![w] = "acting" ]
    /\ UNCHANGED << tasks, created, accounts, queue, wmsg, wtask, wacct,
                    wresult, wdisc, wclient, wexc, wdelay, cancel, faults,
                    done_today >>
    /\ UNCHANGED env

\* The pacing delay is over: dispatch on the task type, then disconnect.
PerformAction(w, outcome) ==
    /\ pc[w] = "acting"
    /\ wdelay' = [ wdelay EXCEPT ![w] = 0 ]
    /\ IF Required(wtask[w].type) \subseteq wtask[w].fields
       THEN CASE outcome = "ok" ->
                   /\ Return(w, "ok")
                   /\ UNCHANGED << wexc, faults >>
              [] outcome = "error" ->
                   /\ faults < MaxFaults
                   /\ faults' = faults + 1
                   /\ Raise(w, "Telegram error", "closed")
                   /\ UNCHANGED wresult
       ELSE /\ outcome = "ok"
            /\ Return(w, "Invalid task parameters")
            /\ UNCHANGED << wexc, faults >>
    /\ UNCHANGED << tasks, created, accounts, queue, wmsg, wtask, wacct,
                    cancel, done_today >>
    /\ UNCHANGED env

\* execute_telegram_action returned: commit the task as completed and the
\* account's counter as the loaded value plus one.
CompleteTask(w) ==
    /\ pc[w] = "finish"
    /\ LET t == wmsg[w].task
           a == wtask[w].account_id
           task == [ wtask[w] EXCEPT !.status = "completed",
                                     !.completed_at = TRUE,
                                     !.progress = 100,
                                     !.error_message = "none" ]
           account == [ wacct[w] EXCEPT !.actions_today = @ + 1 ]
       IN /\ tasks' = [ tasks EXCEPT ![t] = Flush(@, wtask[w], task) ]
          /\ accounts' = [ accounts EXCEPT ![a] =
                             Touch(@, Flush(@, wacct[w], account)) ]
          /\ done_today' = [ done_today EXCEPT ![a] =
                               IF wresult[w] = "ok" THEN @ + 1 ELSE @ ]
    /\ Release(w)
    /\ UNCHANGED << created, queue, cancel, faults >>
    /\ UNCHANGED env

\* self.retry(): the message is sent again unless the queue's own retry
\* budget is used up.  The countdown of the retry only delays the message
\* and is not kept.
Retry(m) ==
    IF m.retries + 1 > max_retries
    THEN {}
    ELSE { [ task |-> m.task, retries |-> m.retries + 1, eta |-> 0 ] }

\* The ceiling test written with > in place of >=.
CeilingReached_gt(rc) == rc > MAX_RETRY_ATTEMPTS

\* The except block's test of the retry ceiling.
CeilingReached(rc) == rc >= MAX_RETRY_ATTEMPTS

\* The except block: count the failure, set failed or pending, retry.
HandleFailure(w) ==
    /\ pc[w] = "except"
    /\ LET t == wmsg[w].task
           rc == wtask[w].retry_count + 1
           task == IF CeilingReached(rc)
                   THEN [ wtask[w] EXCEPT !.retry_count = rc,
                                          !.status = "failed",
                                          !.error_message = wexc[w] ]
                   ELSE [ wtask[w] EXCEPT !.retry_count = rc,
                                          !.status = "pending" ]
       IN /\ tasks' = [ tasks EXCEPT ![t] =
                          IF t \in created THEN Flush(@, wtask[w], task)
                          ELSE @ ]
          /\ queue' = queue \cup Retry(wmsg[w])
    /\ Release(w)
    /\ UNCHANGED << created, accounts, cancel, faults, done_today >>
    /\ UNCHANGED env

\* --------------------------------------------- AutomationService.cancel_task

\* get_task: the request loads the task row into its session.
CancelTaskLoad(t) ==
    /\ cancel.pc = "idle"
    /\ t \in created
    /\ cancel' = [ pc |-> "loaded", task |-> t, seen |-> tasks[t].status ]
    /\ UNCHANGED << tasks, created, accounts, queue, pc, wmsg, wtask, wacct,
                    wresult, wdisc, wclient, wexc, wdelay, faults, done_today >>
    /\ UNCHANGED env

\* The status check letting a running task through as well.
CancelOutcome_running(seen) ==
    IF seen \notin {"pending", "running"} THEN "ForbiddenException"
    ELSE "cancelled"

\* What cancel_task answers for the status it loaded.
CancelOutcome(seen) ==
    IF seen # "pending" THEN "ForbiddenException" ELSE "cancelled"

\* The status check, then task.status = CANCELLED and the commit.
CancelTaskFinish ==
    /\ cancel.pc = "loaded"
    /\ tasks' = IF CancelOutcome(cancel.seen) = "cancelled"
                THEN [ tasks EXCEPT ![cancel.task].status = "cancelled" ]
                ELSE tasks
    /\ cancel' = NoCancel
    /\ UNCHANGED << created, accounts, queue, pc, wmsg, wtask, wacct,
                    wresult, wdisc, wclient, wexc, wdelay, faults, done_today >>
    /\ UNCHANGED env

\* ------------------------------------------------------------ maintenance

\* The UPDATE restricted to the active accounts.
ResetDailyLimits_active(accts, t) ==
    [ a \in DOMAIN accts |->
        IF accts[a].status = "active"
        THEN [ accts[a] EXCEPT !.actions_today = 0, !.updated_at = t ]
        ELSE accts[a] ]

\* The UPDATE of cleanup_daily_limits, executed at time t: it has no WHERE
\* clause and sets actions_today; updated_at follows by its onupdate.
ResetDailyLimits(accts, t) ==
    [ a \in DOMAIN accts |->
        [ accts[a] EXCEPT !.actions_today = 0, !.updated_at = t ] ]

\* cleanup_daily_limits: one UPDATE over all accounts.
CleanupDailyLimits ==
    /\ accounts' = ResetDailyLimits(accounts, now)
    /\ done_today' = [ a \in DOMAIN done_today |-> 0 ]
    /\ UNCHANGED << tasks, created, queue, pc, wmsg, wtask, wacct, wresult,
                    wdisc, wclient, wexc, wdelay, cancel, faults >>
    /\ UNCHANGED env

\* PATCH /accounts/{id} with a status (no proxy_id, no daily_limit).
UpdateAccount(a, st) ==
    /\ accounts' = [ accounts EXCEPT ![a] = Touch(@, [ @ EXCEPT !.status = st ]) ]
    /\ UNCHANGED << tasks, created, queue, pc, wmsg, wtask, wacct, wresult,
                    wdisc, wclient, wexc, wdelay, cancel, faults, done_today >>
    /\ UNCHANGED env

ConnectOutcomes ==
    {"authorized", "not_authorized", "client_error", "connect_error"}

Next ==
    \/ \E a \in Accounts, p \in PayloadInputs : CreateTask(a, p)
    \/ \E w \in Tasks, m \in queue : Pickup(w, m)
    \/ \E w \in Tasks : CheckEligibility(w)
    \/ \E w \in Tasks, o \in ConnectOutcomes : Connect(w, o)
    \/ \E w \in Tasks : Sleep(w)
    \/ \E w \in Tasks, o \in {"ok", "error"} : PerformAction(w, o)
    \/ \E w \in Tasks : CompleteTask(w)
    \/ \E w \in Tasks : HandleFailure(w)
    \/ \E t \in Tasks : CancelTaskLoad(t)
    \/ CancelTaskFinish
    \/ CleanupDailyLimits
    \/ \E a \in Accounts, st \in StatusInputs : UpdateAccount(a, st)

Spec == Init /\ [][Next]_vars

\* ---------------------------------------------- reset during an execution

\* An account that has acted today under a limit it has not reached.
InitReset ==
    /\ tasks = [ t \in Tasks |-> NoTask ]
    /\ created = {}
    /\ accounts \in { [ a \in Accounts |->
                          [ status |-> "active", actions_today |-> n,
                            daily_limit |-> MaxDailyLimit + 1,
                            session_ok |-> ok, organization_id |-> "o1",
                            updated_at |-> 0 ] ]
                      : n \in 1..MaxDailyLimit, ok \in BOOLEAN }
    /\ queue = {}
    /\ pc = [ w \in Tasks |-> "idle" ]
    /\ wmsg = [ w \in Tasks |-> NoMsg ]
    /\ wtask = [ w \in Tasks |-> NoTask ]
    /\ wacct = [ w \in Tasks |-> NoAccount ]
    /\ wresult = [ w \in Tasks |-> "none" ]
    /\ wdisc = [ w \in Tasks |-> 0 ]
    /\ wclient = [ w \in Tasks |-> "none" ]
    /\ wexc = [ w \in Tasks |-> "none" ]
    /\ wdelay = [ w \in Tasks |-> 0 ]
    /\ cancel = NoCancel
    /\ faults = 0
    /\ done_today = [ a \in Accounts |-> accounts[a].actions_today ]
    /\ now = 0
    /\ api = NoApi
    /\ InitRest

\* The execution of one task and the daily reset.
NextReset ==
    \/ \E a \in Accounts, p \in PayloadInputs : created = {} /\ CreateTask(a, p)
    \/ \E w \in Tasks, m \in queue : Pickup(w, m)
    \/ \E w \in Tasks : CheckEligibility(w)
    \/ \E w \in Tasks, o \in ConnectOutcomes : Connect(w, o)
    \/ \E w \in Tasks : Sleep(w)
    \/ \E w \in Tasks, o \in {"ok", "error"} : PerformAction(w, o)
    \/ \E w \in Tasks : CompleteTask(w)
    \/ \E w \in Tasks : HandleFailure(w)
    \/ CleanupDailyLimits

SpecReset == InitReset /\ [][NextReset]_vars

\* ------------------------------------------------------------ time limits

\* task_soft_time_limit: SoftTimeLimitExceeded is raised in the worker
\* process by a signal handler.  Raised while the coroutine's own code runs
\* ("in_task") it is an Exception inside the try of _execute; raised while
\* the event loop waits ("in_loop") it leaves asyncio.run, which cancels the
\* coroutine: CancelledError at its await, which except Exception does not
\* catch.  Either way the finally blocks run next.
SoftTimeLimit(w, where) ==
    /\ \/ /\ where = "in_task"
          /\ pc[w] \in {"loaded", "running", "delaying", "acting"}
          /\ wexc' = [ wexc EXCEPT ![w] = "SoftTimeLimitExceeded" ]
       \/ /\ where = "in_loop"
          /\ pc[w] \in {"loaded", "running", "delaying", "acting", "finish",
                         "except"}
          /\ wexc' = [ wexc EXCEPT ![w] = "CancelledError" ]
    /\ pc' = [ pc EXCEPT ![w] = "unwinding" ]
    /\ UNCHANGED << tasks, created, accounts, queue, wmsg, wtask, wacct,
                    wresult, wdisc, wclient, wdelay, cancel, faults,
                    done_today >>
    /\ UNCHANGED env

\* The finally of execute_telegram_action during the unwinding: a client
\* that exists is disconnected; SoftTimeLimitExceeded then reaches the
\* except block, CancelledError passes it by.
Unwind(w) ==
    /\ pc[w] = "unwinding"
    /\ pc' = [ pc EXCEPT ![w] = IF wexc[w] = "SoftTimeLimitExceeded"
                                THEN "except" ELSE "cancelled" ]
    /\ IF wclient[w] = "connected"
       THEN /\ wclient' = [ wclient EXCEPT ![w] = "closed" ]
            /\ wdisc' = [ wdisc EXCEPT ![w] = @ + 1 ]
       ELSE UNCHANGED << wclient, wdisc >>
    /\ wdelay' = [ wdelay EXCEPT ![w] = 0 ]
    /\ UNCHANGED << tasks, created, accounts, queue, wmsg, wtask, wacct,
                    wresult, wexc, cancel, faults, done_today >>
    /\ UNCHANGED env

\* The cancelled coroutine closes its session and ends; nothing was
\* committed and nothing is sent.
EndCancelled(w) ==
    /\ pc[w] = "cancelled"
    /\ Release(w)
    /\ UNCHANGED << tasks, created, accounts, queue, cancel, faults,
                    done_today >>
    /\ UNCHANGED env

\* task_time_limit: an attempt still running 60 seconds after its soft
\* limit has its worker process killed; no except and no finally runs.
HardTimeLimit(w) ==
    /\ \/ pc[w] \in {"unwinding", "cancelled"}
       \/ pc[w] = "except" /\ wexc[w] = "SoftTimeLimitExceeded"
    /\ Release(w)
    /\ UNCHANGED << tasks, created, accounts, queue, cancel, faults,
                    done_today >>
    /\ UNCHANGED env

\* The execution engine under its time limits.
NextLimits ==
    \/ \E a \in Accounts, p \in PayloadInputs : CreateTask(a, p)
    \/ \E w \in Tasks, m \in queue : Pickup(w, m)
    \/ \E w \in Tasks : CheckEligibility(w)
    \/ \E w \in Tasks, o \in ConnectOutcomes : Connect(w, o)
    \/ \E w \in Tasks : Sleep(w)
    \/ \E w \in Tasks, o \in {"ok", "error"} : PerformAction(w, o)
    \/ \E w \in Tasks : CompleteTask(w)
    \/ \E w \in Tasks : HandleFailure(w)
    \/ \E w \in Tasks, where \in {"in_task", "in_loop"} : SoftTimeLimit(w, where)
    \/ \E w \in Tasks : Unwind(w)
    \/ \E w \in Tasks : EndCancelled(w)
    \/ \E w \in Tasks : HardTimeLimit(w)

SpecLimits == Init /\ [][NextLimits]_vars

\* ---------------------------------------------- SessionEncryptionService

\* Byte values and the byte strings the service is given.
ByteInputs == {0, 65, 255}
DataInputs == UNION { [ 1..n -> ByteInputs ] : n \in 0..MaxLen }

\* Values of os.urandom(12).
NonceInputs ==
    { [ i \in 1..NonceLength |-> 0 ],
      [ i \in 1..NonceLength |-> 255 ],
      [ i \in 1..NonceLength |-> (i * 37) % 256 ] }

RECURSIVE Sum(_)
Sum(q) == IF q = << >> THEN 0 ELSE Head(q) + Sum(Tail(q))

\* AESGCM(key) stands as a stream cipher with an authentication tag: the
\* key stream depends on nonce and position, the tag on nonce and
\* ciphertext.
KeyStream(nonce, i) == (nonce[((i - 1) % NonceLength) + 1] * 7 + i * 13 + 91) % 256

GcmTag(nonce, ct) ==
    [ j \in 1..TagLength |-> (Sum(ct) + Sum(nonce) + Len(ct) + j * 17) % 256 ]

\* aesgcm.encrypt(nonce, data, None): ciphertext followed by the tag.
GcmEncrypt(nonce, data) ==
    LET ct == [ i \in 1..Len(data) |-> (data[i] + KeyStream(nonce, i)) % 256 ]
    IN ct \o GcmTag(nonce, ct)

\* aesgcm.decrypt(nonce, ciphertext, None): the plaintext, or InvalidTag.
GcmDecrypt(nonce, blob) ==
    IF Len(nonce) # NonceLength \/ Len(blob) < TagLength
    THEN [ raised |-> "InvalidTag", bytes |-> << >> ]
    ELSE LET n == Len(blob) - TagLength
             ct == SubSeq(blob, 1, n)
         IN IF SubSeq(blob, n + 1, Len(blob)) # GcmTag(nonce, ct)
            THEN [ raised |-> "InvalidTag", bytes |-> << >> ]
            ELSE [ raised |-> "none",
                   bytes |-> [ i \in 1..n |->
                                 (ct[i] - KeyStream(nonce, i) + 256) % 256 ] ]

\* base64.b64encode: characters are the numbers 0..63, the padding is 64.
B64Encode(b) ==
    LET n == Len(b)
        byte(i) == IF i <= n THEN b[i] ELSE 0
        v(g) == byte(3 * g - 2) * 65536 + byte(3 * g - 1) * 256 + byte(3 * g)
        sextet(g, j) == CASE j = 1 -> v(g) \div 262144
                          [] j = 2 -> (v(g) \div 4096) % 64
                          [] j = 3 -> (v(g) \div 64) % 64
                          [] j = 4 -> v(g) % 64
        groups == (n + 2) \div 3
    IN [ p \in 1..(4 * groups) |->
           LET g == ((p - 1) \div 4) + 1
               j == ((p - 1) % 4) + 1
           IN IF g = groups /\ ( \/ (n % 3 = 1 /\ j >= 3)
                                \/ (n % 3 = 2 /\ j = 4) )
              THEN 64 ELSE sextet(g, j) ]

\* base64.b64decode of a padded string.
B64Decode(c) ==
    LET groups == Len(c) \div 4
        pad == Cardinality({ p \in 1..Len(c) : c[p] = 64 })
        six(p) == IF c[p] = 64 THEN 0 ELSE c[p]
        v(g) == six(4 * g - 3) * 262144 + six(4 * g - 2) * 4096
                + six(4 * g - 1) * 64 + six(4 * g)
    IN [ i \in 1..(3 * groups - pad) |->
           LET g == ((i - 1) \div 3) + 1
               k == (i - 1) % 3
           IN CASE k = 0 -> v(g) \div 65536
                [] k = 1 -> (v(g) \div 256) % 256
                [] k = 2 -> v(g) % 256 ]

\* encrypt: nonce + ciphertext, base64 encoded.
EncryptToken(nonce, data) == B64Encode(nonce \o GcmEncrypt(nonce, data))

\* The ciphertext taken from behind the tag's length.
CiphertextOf_tag(encrypted) == SubSeq(encrypted, TagLength + 1, Len(encrypted))

\* encrypted[12:]
CiphertextOf(encrypted) == SubSeq(encrypted, NonceLength + 1, Len(encrypted))

\* decrypt: decode, split nonce and ciphertext, decrypt; any exception is
\* answered HTTPException "Decryption failed".
DecryptToken(token) ==
    LET encrypted == B64Decode(token)
        nonce == SubSeq(encrypted, 1, NonceLength)
        plaintext == GcmDecrypt(nonce, CiphertextOf(encrypted))
    IN IF plaintext.raised # "none"
       THEN [ raised |-> "Decryption failed", bytes |-> << >> ]
       ELSE plaintext

\* encryption_service.encrypt(data) with the nonce it draws.
Encrypt(data, nonce) ==
    /\ vault.pc = "idle"
    /\ vault' = [ pc |-> "stored", data |-> data, nonce |-> nonce,
                  token |-> EncryptToken(nonce, data), out |-> << >>,
                  raised |-> "none" ]
    /\ UNCHANGED << tasks, created, accounts, queue, pc, wmsg, wtask, wacct,
                    wresult, wdisc, wclient, wexc, wdelay, cancel, faults,
                    done_today, now, api, activity_log, cache, req, hc >>

\* encryption_service.decrypt(session_encrypted)
Decrypt ==
    /\ vault.pc = "stored"
    /\ vault' = [ vault EXCEPT !.pc = "decrypted",
                               !.out = DecryptToken(vault.token).bytes,
                               !.raised = DecryptToken(vault.token).raised ]
    /\ UNCHANGED << tasks, created, accounts, queue, pc, wmsg, wtask, wacct,
                    wresult, wdisc, wclient, wexc, wdelay, cancel, faults,
                    done_today, now, api, activity_log, cache, req, hc >>

\* The caller is done with the plaintext.
Forget ==
    /\ vault.pc = "decrypted"
    /\ vault' = NoVault
    /\ UNCHANGED << tasks, created, accounts, queue, pc, wmsg, wtask, wacct,
                    wresult, wdisc, wclient, wexc, wdelay, cancel, faults,
                    done_today, now, api, activity_log, cache, req, hc >>

NextVault ==
    \/ \E data \in DataInputs, nonce \in NonceInputs : Encrypt(data, nonce)
    \/ Decrypt
    \/ Forget

SpecVault == Init /\ [][NextVault]_vars

\* ----------------------------------------------------- duplicate delivery

\* The queue delivers the message worker v is executing a second time, to
\* worker w, which loads the task row.
DuplicateDelivery(w, v) ==
    /\ w # v
    /\ pc[w] = "idle"
    /\ pc[v] # "idle"
    /\ wmsg[v].task \in created
    /\ faults < MaxFaults
    /\ faults' = faults + 1
    /\ pc' = [ pc EXCEPT ![w] = "loaded" ]
    /\ wmsg' = [ wmsg EXCEPT ![w] = wmsg[v] ]
    /\ wtask' = [ wtask EXCEPT ![w] = tasks[wmsg[v].task] ]
    /\ UNCHANGED << tasks, created, accounts, queue, wacct, wresult, wdisc,
                    wclient, wexc, wdelay, cancel, done_today >>
    /\ UNCHANGED env

\* The execution engine, for one task, on a queue that delivers at least
\* once.
NextDuplicate ==
    \/ \E a \in Accounts, p \in PayloadInputs : created = {} /\ CreateTask(a, p)
    \/ \E w \in Tasks, m \in queue : Pickup(w, m)
    \/ \E w, v \in Tasks : DuplicateDelivery(w, v)
    \/ \E w \in Tasks : CheckEligibility(w)
    \/ \E w \in Tasks, o \in ConnectOutcomes : Connect(w, o)
    \/ \E w \in Tasks : Sleep(w)
    \/ \E w \in Tasks, o \in {"ok", "error"} : PerformAction(w, o)
    \/ \E w \in Tasks : CompleteTask(w)
    \/ \E w \in Tasks : HandleFailure(w)

SpecDuplicate == Init /\ [][NextDuplicate]_vars

\* ------------------------------------------------- accounts over the days

\* Organization of an account.
OrgOf(a) == IF a = "a1" THEN "o1" ELSE "o2"

\* current_user.organization_id.
UserOrg(u) == IF u = "u1" THEN "o1" ELSE "o2"

\* Two accounts of two organizations that have acted today; no task exists.
InitAccounts ==
    /\ tasks = [ t \in Tasks |-> NoTask ]
    /\ created = {}
    /\ accounts \in
         [ AllAccounts ->
             { [ status |-> "active", actions_today |-> n, daily_limit |-> k,
                 session_ok |-> TRUE, organization_id |-> o, updated_at |-> 0 ]
               : n \in 1..MaxDailyLimit, k \in 1..MaxDailyLimit, o \in Orgs } ]
    /\ \A a \in AllAccounts :
         /\ accounts[a].organization_id = OrgOf(a)
         /\ accounts[a].actions_today <= accounts[a].daily_limit
    /\ queue = {}
    /\ pc = [ w \in Tasks |-> "idle" ]
    /\ wmsg = [ w \in Tasks |-> NoMsg ]
    /\ wtask = [ w \in Tasks |-> NoTask ]
    /\ wacct = [ w \in Tasks |-> NoAccount ]
    /\ wresult = [ w \in Tasks |-> "none" ]
    /\ wdisc = [ w \in Tasks |-> 0 ]
    /\ wclient = [ w \in Tasks |-> "none" ]
    /\ wexc = [ w \in Tasks |-> "none" ]
    /\ wdelay = [ w \in Tasks |-> 0 ]
    /\ cancel = NoCancel
    /\ faults = 0
    /\ done_today = [ a \in AllAccounts |-> accounts[a].actions_today ]
    /\ now = 0
    /\ api = NoApi
    /\ InitRest

\* Time passes.
Tick ==
    /\ now < MaxTime
    /\ now' = now + 1
    /\ UNCHANGED << tasks, created, accounts, queue, pc, wmsg, wtask, wacct,
                    wresult, wdisc, wclient, wexc, wdelay, cancel, faults,
                    done_today, api, activity_log >>
    /\ UNCHANGED rest

NextAccounts ==
    \/ Tick
    \/ CleanupDailyLimits
    \/ \E a \in AllAccounts, st \in StatusInputs : UpdateAccount(a, st)

SpecAccounts == InitAccounts /\ [][NextAccounts]_vars

\* ------------------------------------------- POST /tasks, POST /tasks/bulk

\* account_ids of the requests: every list of 1 to MaxBatch accounts.
BatchInputs == UNION { [ 1..n -> AllAccounts ] : n \in 1..MaxBatch }

\* scheduled_for of the requests; 0 is None.
ScheduleInputs == 0..MaxTime

\* The ownership check passing for every account.
VerifyAccountOwnership_any(a, org) == a \in DOMAIN accounts

\* verify_account_ownership: the account exists in the organization.
VerifyAccountOwnership(a, org) ==
    /\ a \in DOMAIN accounts
    /\ accounts[a].organization_id = org

\* The organization the service gives the tasks: that of the first, or
\* only, account of the request.
ServiceOrganization(ids) == accounts[ids[1]].organization_id

\* The router takes a request of user u and verifies every account against
\* the user's organization; a failure is answered NotFoundException.
ApiVerify(op, u, ids, p, s) ==
    /\ api.pc \in {"idle", "rejected", "done"}
    /\ op = "single" => Len(ids) = 1
    /\ Cardinality(created) + Len(ids) <= Cardinality(Tasks)
    /\ api' = [ pc |-> IF \A i \in DOMAIN ids :
                             VerifyAccountOwnership(ids[i], UserOrg(u))
                      THEN "verified" ELSE "rejected",
                op |-> op, user |-> u, ids |-> ids, payload |-> p,
                scheduled_for |-> s, before |-> created, sent |-> 0 ]
    /\ UNCHANGED << tasks, created, accounts, queue, pc, wmsg, wtask, wacct,
                    wresult, wdisc, wclient, wexc, wdelay, cancel, faults,
                    done_today, now, activity_log >>
    /\ UNCHANGED rest

\* AutomationService.create_task and create_bulk_tasks: every account is
\* verified against the first account's organization, the rows are added
\* and one commit creates them all; an exception leaves nothing behind.
ApiCommit ==
    /\ api.pc = "verified"
    /\ LET ids == api.ids
           org == ServiceOrganization(ids)
           first == Cardinality(created)
           row(i) == [ NoTask EXCEPT !.account_id = ids[i],
                                     !.organization_id = org,
                                     !.user_id = api.user,
                                     !.type = api.payload.type,
                                     !.fields = api.payload.fields,
                                     !.scheduled_for = api.scheduled_for ]
       IN IF \A i \in DOMAIN ids : VerifyAccountOwnership(ids[i], org)
          THEN /\ created' = created \cup { first + i : i \in DOMAIN ids }
               /\ tasks' = [ t \in Tasks |->
                               IF t - first \in DOMAIN ids
                               THEN row(t - first) ELSE tasks[t] ]
               /\ api' = [ api EXCEPT !.pc = "committed" ]
          ELSE /\ api' = [ api EXCEPT !.pc = "rejected" ]
               /\ UNCHANGED << tasks, created >>
    /\ UNCHANGED << accounts, queue, pc, wmsg, wtask, wacct, wresult, wdisc,
                    wclient, wexc, wdelay, cancel, faults, done_today, now,
                    activity_log >>
    /\ UNCHANGED rest

\* eta of the message the router sends for a task: create_task passes a
\* scheduled_for that lies in the future, create_bulk_tasks passes none.
MessageEta(op, s) == IF op = "single" /\ s # 0 /\ s > now THEN s ELSE 0

\* The router sends the message of the next task of the request; after the
\* last one it logs the activity and answers.
ApiEnqueue ==
    /\ api.pc = "committed"
    /\ LET t == Cardinality(api.before) + api.sent + 1 IN
        /\ queue' = queue \cup
               { [ task |-> t, retries |-> 0,
                   eta |-> MessageEta(api.op, api.scheduled_for) ] }
        /\ api' = [ api EXCEPT !.sent = @ + 1,
                               !.pc = IF api.sent + 1 = Len(api.ids)
                                      THEN "done" ELSE "committed" ]
    /\ activity_log' =
         IF api.sent + 1 = Len(api.ids)
         THEN Append(activity_log, IF api.op = "single" THEN "create_task"
                                   ELSE "create_bulk_tasks")
         ELSE activity_log
    /\ UNCHANGED << tasks, created, accounts, pc, wmsg, wtask, wacct,
                    wresult, wdisc, wclient, wexc, wdelay, cancel, faults,
                    done_today, now >>
    /\ UNCHANGED rest

\* The creation endpoints, the clock and the queue's delivery.
NextApi ==
    \/ \E op \in {"single", "bulk"}, u \in Users, ids \in BatchInputs,
          p \in PayloadInputs, s \in ScheduleInputs : ApiVerify(op, u, ids, p, s)
    \/ ApiCommit
    \/ ApiEnqueue
    \/ Tick
    \/ \E w \in Tasks, m \in queue : Pickup(w, m)

\* The endpoints read no counter of an account: the accounts have acted once
\* under a limit of one.
InitApi ==
    /\ InitAccounts
    /\ \A a \in AllAccounts :
         /\ accounts[a].actions_today = 1
         /\ accounts[a].daily_limit = 1

SpecApi == InitApi /\ [][NextApi]_vars

\* celery_app.send_task raises (the broker cannot be reached): the
\* exception leaves the route, after the commit of the rows and before the
\* messages not yet sent and the activity log.
ApiEnqueueRaises ==
    /\ api.pc = "committed"
    /\ api' = [ api EXCEPT !.pc = "failed" ]
    /\ UNCHANGED << tasks, created, accounts, queue, pc, wmsg, wtask, wacct,
                    wresult, wdisc, wclient, wexc, wdelay, cancel, faults,
                    done_today, now, activity_log >>
    /\ UNCHANGED rest

\* The creation endpoints with a broker that can fail.
NextEnqueue ==
    \/ \E op \in {"single", "bulk"}, u \in Users, ids \in BatchInputs,
          p \in PayloadInputs, s \in ScheduleInputs : ApiVerify(op, u, ids, p, s)
    \/ ApiCommit
    \/ ApiEnqueue
    \/ ApiEnqueueRaises
    \/ Tick
    \/ \E w \in Tasks, m \in queue : Pickup(w, m)

SpecEnqueue == InitApi /\ [][NextEnqueue]_vars

\* ------------------------------------------- TelegramService and its routes

\* What a request of the accounts API and a health check leave alone.
workers ==
    << queue, pc, wmsg, wtask, wacct, wresult, wdisc, wclient, wexc, wdelay,
       cancel, faults, done_today, now, api, vault >>

\* Two accounts, each with a session that decrypts or does not; no task
\* exists and no client is cached.
InitTelegram ==
    /\ tasks = [ t \in Tasks |-> NoTask ]
    /\ created = {}
    /\ accounts \in
         [ AllAccounts ->
             { [ status |-> "active", actions_today |-> 0,
                 daily_limit |-> MaxDailyLimit, session_ok |-> ok,
                 organization_id |-> o, updated_at |-> 0 ]
               : ok \in BOOLEAN, o \in Orgs } ]
    /\ \A a \in AllAccounts : accounts[a].organization_id = OrgOf(a)
    /\ queue = {}
    /\ pc = [ w \in Tasks |-> "idle" ]
    /\ wmsg = [ w \in Tasks |-> NoMsg ]
    /\ wtask = [ w \in Tasks |-> NoTask ]
    /\ wacct = [ w \in Tasks |-> NoAccount ]
    /\ wresult = [ w \in Tasks |-> "none" ]
    /\ wdisc = [ w \in Tasks |-> 0 ]
    /\ wclient = [ w \in Tasks |-> "none" ]
    /\ wexc = [ w \in Tasks |-> "none" ]
    /\ wdelay = [ w \in Tasks |-> 0 ]
    /\ cancel = NoCancel
    /\ faults = 0
    /\ done_today = [ a \in AllAccounts |-> 0 ]
    /\ now = 0
    /\ api = NoApi
    /\ InitRest

\* The routes' ownership select, by a user of the account's organization:
\* the row is loaded into the request's session, or the request is answered
\* NotFound. A request follows the one before it; again marks a disconnect
\* that follows a disconnect of the same account that returned.
ReqLoad(op, a) ==
    /\ req.pc \in {"idle", "done"}
    /\ LET again == /\ op = "disconnect"
                    /\ req.pc = "done"
                    /\ req.op = "disconnect"
                    /\ req.account = a
                    /\ req.result = "ok"
       IN req' = IF a \in DOMAIN accounts
                 THEN [ pc |-> "loaded", op |-> op, account |-> a,
                        result |-> "none", loaded |-> accounts[a],
                        calls |-> 0, again |-> again, open |-> 0 ]
                 ELSE [ pc |-> "done", op |-> op, account |-> a,
                        result |-> "NotFound", loaded |-> NoAccount,
                        calls |-> 0, again |-> again, open |-> 0 ]
    /\ UNCHANGED << tasks, created, accounts, activity_log, cache, hc >>
    /\ UNCHANGED workers

ConnectAccountOutcomes ==
    {"authorized", "not_authorized", "not_authorized_disconnect_error",
     "client_error", "connect_error", "check_error"}

\* TelegramService.connect_account from the decrypt to its return or raise.
\* The select finds the row the route loaded, so the session writes the
\* attributes that differ from that copy.  open counts the clients the call
\* connected or replaced in the cache that are neither the cache entry nor
\* disconnected: the except block disconnects nothing, and the assignment
\* to _clients drops the entry that was there.
ConnectAccount(outcome) ==
    /\ req.pc = "loaded"
    /\ req.op = "connect"
    /\ LET a == req.account
           row == accounts[a]
           obj == req.loaded
           failed == [ obj EXCEPT !.status = "connection_error" ]
           refused == [ obj EXCEPT !.status = "auth_required" ]
       IN IF ~ obj.session_ok
          THEN /\ outcome = "authorized"
               /\ accounts' = [ accounts EXCEPT
                                  ![a] = Touch(row, Flush(row, obj, failed)) ]
               /\ req' = [ req EXCEPT !.pc = "done", !.loaded = failed,
                                      !.result = "TelegramException" ]
               /\ UNCHANGED cache
          ELSE CASE outcome = "authorized" ->
                      /\ accounts' =
                           [ accounts EXCEPT
                               ![a] = [ Flush(row, obj,
                                              [ obj EXCEPT !.status = "active" ])
                                        EXCEPT !.updated_at = now ] ]
                      /\ cache' = [ cache EXCEPT ![a] = "connected" ]
                      /\ req' = [ req EXCEPT
                                    !.pc = "done",
                                    !.loaded = [ obj EXCEPT !.status = "active" ],
                                    !.result = "connected",
                                    !.open = IF cache[a] = "connected"
                                             THEN 1 ELSE 0 ]
                 [] outcome = "not_authorized" ->
                      /\ accounts' = [ accounts EXCEPT
                                         ![a] = Touch(row, Flush(row, obj, refused)) ]
                      /\ req' = [ req EXCEPT !.pc = "done", !.loaded = refused,
                                             !.result = "auth_required" ]
                      /\ UNCHANGED cache
                 [] outcome = "not_authorized_disconnect_error" ->
                      /\ accounts' =
                           [ accounts EXCEPT
                               ![a] = LET first == Touch(row, Flush(row, obj, refused))
                                      IN Touch(first, Flush(first, refused, failed)) ]
                      /\ req' = [ req EXCEPT !.pc = "done", !.loaded = failed,
                                             !.result = "TelegramException",
                                             !.open = 1 ]
                      /\ UNCHANGED cache
                 [] outcome \in {"client_error", "connect_error", "check_error"} ->
                      /\ accounts' = [ accounts EXCEPT
                                         ![a] = Touch(row, Flush(row, obj, failed)) ]
                      /\ req' = [ req EXCEPT !.pc = "done", !.loaded = failed,
                                             !.result = "TelegramException",
                                             !.open = IF outcome = "check_error"
                                                      THEN 1 ELSE 0 ]
                      /\ UNCHANGED cache
    /\ UNCHANGED << tasks, created, activity_log, hc >>
    /\ UNCHANGED workers

\* The cache with the entry of an account kept.
Evicted_kept(c, a) == c

\* del self._clients[str(account_id)]
Evicted(c, a) == [ c EXCEPT ![a] = "none" ]

\* disconnect_account, the cache: the cached client is disconnected and its
\* entry deleted; when client.disconnect() raises, the entry stays.
DisconnectCache(outcome) ==
    /\ req.pc = "loaded"
    /\ req.op \in {"disconnect", "delete"}
    /\ LET a == req.account
       IN IF cache[a] = "none"
          THEN /\ outcome = "ok"
               /\ req' = [ req EXCEPT !.pc = "status" ]
               /\ UNCHANGED cache
          ELSE IF outcome = "ok"
               THEN /\ cache' = Evicted(cache, a)
                    /\ req' = [ req EXCEPT !.pc = "status",
                                           !.calls = req.calls + 1 ]
               ELSE /\ req' = [ req EXCEPT !.pc = "done",
                                           !.calls = req.calls + 1,
                                           !.result = "raised" ]
                    /\ UNCHANGED cache
    /\ UNCHANGED << tasks, created, accounts, activity_log, hc >>
    /\ UNCHANGED workers

\* disconnect_account, the status: INACTIVE is set on the row the route
\* loaded and committed.
DisconnectStatus ==
    /\ req.pc = "status"
    /\ LET a == req.account
           row == accounts[a]
           obj == [ req.loaded EXCEPT !.status = "inactive" ]
       IN /\ accounts' = [ accounts EXCEPT
                             ![a] = Touch(row, Flush(row, req.loaded, obj)) ]
          /\ req' = IF req.op = "disconnect"
                    THEN [ req EXCEPT !.pc = "done", !.loaded = obj,
                                      !.result = "ok" ]
                    ELSE [ req EXCEPT !.pc = "delete", !.loaded = obj ]
    /\ UNCHANGED << tasks, created, activity_log, cache, hc >>
    /\ UNCHANGED workers

\* The tasks of an account.
TasksOf(a) == { t \in created : tasks[t].account_id = a }

\* The flush of a deleted account never raises.
DeleteRaises_never(a) == FALSE

\* The flush of a deleted account sets the account_id of its tasks to NULL
\* (automation_tasks has no delete cascade), which the column refuses.
DeleteRaises(a) == TasksOf(a) # {}

\* delete_account after the disconnect: db.delete, commit and the activity
\* log. The foreign key deletes the tasks that still name the account.
DeleteAccount ==
    /\ req.pc = "delete"
    /\ LET a == req.account
       IN IF DeleteRaises(a)
          THEN /\ req' = [ req EXCEPT !.pc = "done", !.result = "IntegrityError" ]
               /\ UNCHANGED << accounts, created, activity_log >>
          ELSE /\ accounts' = [ b \in DOMAIN accounts \ {a} |-> accounts[b] ]
               /\ created' = created \ TasksOf(a)
               /\ activity_log' = Append(activity_log, "delete_account")
               /\ req' = [ req EXCEPT !.pc = "done", !.result = "deleted" ]
    /\ UNCHANGED << tasks, cache, hc >>
    /\ UNCHANGED workers

\* check_account_health: the select.
HcLoad(a) ==
    /\ hc.pc \in {"idle", "done"}
    /\ hc' = IF a \in DOMAIN accounts
             THEN [ pc |-> "loaded", account |-> a, client |-> "none",
                    result |-> "none", loaded |-> accounts[a] ]
             ELSE [ pc |-> "done", account |-> a, client |-> "none",
                    result |-> "Account not found", loaded |-> NoAccount ]
    /\ UNCHANGED << tasks, created, accounts, activity_log, cache, req >>
    /\ UNCHANGED workers

\* The decrypt and the client's construction, before the try, and
\* client.connect() in it.
HcConnect(outcome) ==
    /\ hc.pc = "loaded"
    /\ IF ~ hc.loaded.session_ok
       THEN /\ outcome = "connected"
            /\ hc' = [ hc EXCEPT !.pc = "done", !.result = "raised" ]
       ELSE CASE outcome = "connected" ->
                   hc' = [ hc EXCEPT !.pc = "connected", !.client = "connected" ]
              [] outcome = "client_error" ->
                   hc' = [ hc EXCEPT !.pc = "done", !.result = "raised" ]
              [] outcome = "connect_error" ->
                   hc' = [ hc EXCEPT !.pc = "failed" ]
    /\ UNCHANGED << tasks, created, accounts, activity_log, cache, req >>
    /\ UNCHANGED workers

\* The authorization check and get_me on the connected client, then the
\* status and the commit, or the except branch for a connect that raised.
\* A commit for a row that is gone raises in the try and in the except.
HcCheck(outcome) ==
    /\ hc.pc \in {"connected", "failed"}
    /\ hc.pc = "failed" => outcome = "check_error"
    /\ LET a == hc.account
           status == CASE outcome = "authorized" -> "active"
                       [] outcome = "not_authorized" -> "auth_required"
                       [] outcome = "check_error" -> "connection_error"
           result == CASE outcome = "authorized" -> "active"
                       [] outcome = "not_authorized" -> "auth_required"
                       [] outcome = "check_error" -> "error"
           obj == [ hc.loaded EXCEPT !.status = status ]
       IN IF a \notin DOMAIN accounts
          THEN /\ hc' = [ hc EXCEPT !.pc = "finally", !.result = "raised" ]
               /\ UNCHANGED accounts
          ELSE /\ accounts' =
                    [ accounts EXCEPT
                        ![a] = IF outcome = "authorized"
                               THEN [ Flush(accounts[a], hc.loaded, obj)
                                      EXCEPT !.updated_at = now ]
                               ELSE Touch(accounts[a],
                                          Flush(accounts[a], hc.loaded, obj)) ]
               /\ hc' = [ hc EXCEPT !.pc = "finally", !.loaded = obj,
                                    !.result = result ]
    /\ UNCHANGED << tasks, created, activity_log, cache, req >>
    /\ UNCHANGED workers

\* finally: client.disconnect(), which returns or raises.
HcDisconnect(outcome) ==
    /\ hc.pc = "finally"
    /\ hc' = [ hc EXCEPT !.pc = "done", !.client = "none",
                         !.result = IF outcome = "ok" THEN hc.result
                                    ELSE "raised" ]
    /\ UNCHANGED << tasks, created, accounts, activity_log, cache, req >>
    /\ UNCHANGED workers

\* The requests of the accounts API, one after the other.
NextService ==
    \/ \E op \in {"connect", "disconnect", "delete"}, a \in AllAccounts :
         ReqLoad(op, a)
    \/ \E o \in ConnectAccountOutcomes : ConnectAccount(o)
    \/ \E o \in {"ok", "error"} : DisconnectCache(o)
    \/ DisconnectStatus
    \/ DeleteAccount

SpecService == InitTelegram /\ [][NextService]_vars

\* The requests and the health checks.
NextHealth ==
    \/ \E op \in {"connect", "disconnect", "delete"}, a \in AllAccounts :
         ReqLoad(op, a)
    \/ \E o \in ConnectAccountOutcomes : ConnectAccount(o)
    \/ \E o \in {"ok", "error"} : DisconnectCache(o)
    \/ DisconnectStatus
    \/ DeleteAccount
    \/ \E a \in AllAccounts : HcLoad(a)
    \/ \E o \in {"connected", "client_error", "connect_error"} : HcConnect(o)
    \/ \E o \in {"authorized", "not_authorized", "check_error"} : HcCheck(o)
    \/ \E o \in {"ok", "error"} : HcDisconnect(o)

SpecHealth == InitTelegram /\ [][NextHealth]_vars

\* The deletion of accounts, the execution of one task and its
\* cancellation.
NextDeletion ==
    \/ \E a \in AllAccounts : ReqLoad("delete", a)
    \/ \E o \in {"ok", "error"} : DisconnectCache(o)
    \/ DisconnectStatus
    \/ DeleteAccount
    \/ \E a \in Accounts, p \in PayloadInputs :
         created = {} /\ a \in DOMAIN accounts /\ CreateTask(a, p)
    \/ \E w \in Tasks, m \in queue : Pickup(w, m)
    \/ \E w \in Tasks : CheckEligibility(w)
    \/ \E w \in Tasks, o \in ConnectOutcomes : Connect(w, o)
    \/ \E w \in Tasks : Sleep(w)
    \/ \E w \in Tasks, o \in {"ok", "error"} : PerformAction(w, o)
    \/ \E w \in Tasks : CompleteTask(w)
    \/ \E w \in Tasks : HandleFailure(w)
    \/ \E t \in Tasks : CancelTaskLoad(t)
    \/ CancelTaskFinish

SpecDeletion == InitTelegram /\ [][NextDeletion]_vars

\* ------------------------------------------------------------ add_account

\* TelegramAccount(phone_number=..., session_encrypted=..., status=PENDING,
\* daily_limit=...): the constructor is given no organization_id, and the
\* column has no default; actions_today takes its default 0.
NewAccount(limit) ==
    [ status |-> "pending", actions_today |-> 0, daily_limit |-> limit,
      session_ok |-> TRUE, organization_id |-> "NULL", updated_at |-> now ]

\* POST /accounts by user u: the session is encrypted, the row is added and
\* committed; organization_id is nullable=False, so the INSERT of a NULL
\* raises IntegrityError, which the route answers with HTTP 400.
AddAccount(u, a, limit, data, nonce) ==
    /\ a \notin DOMAIN accounts
    /\ vault' = [ pc |-> "stored", data |-> data, nonce |-> nonce,
                  token |-> EncryptToken(nonce, data), out |-> << >>,
                  raised |-> "none" ]
    /\ LET row == NewAccount(limit)
       IN IF row.organization_id = "NULL"
          THEN /\ req' = [ pc |-> "done", op |-> "add_account", user |-> u,
                           account |-> a, limit |-> limit,
                           result |-> "HTTP 400" ]
               /\ UNCHANGED << accounts, activity_log >>
          ELSE /\ req' = [ pc |-> "done", op |-> "add_account", user |-> u,
                           account |-> a, limit |-> limit,
                           result |-> "created" ]
               /\ accounts' = [ b \in DOMAIN accounts \cup {a} |->
                                  IF b = a THEN row ELSE accounts[b] ]
               /\ activity_log' = Append(activity_log, "add_account")
    /\ UNCHANGED << tasks, created, queue, pc, wmsg, wtask, wacct, wresult,
                    wdisc, wclient, wexc, wdelay, cancel, faults, done_today,
                    now, api, cache, hc >>

\* Registrations by the users of both organizations, under one nonce.
NextRegister ==
    \E u \in Users, a \in AllAccounts, limit \in 1..MaxDailyLimit,
       data \in DataInputs :
        AddAccount(u, a, limit, data, CHOOSE nonce \in NonceInputs : TRUE)

SpecRegister == Init /\ [][NextRegister]_vars

\* ------------------------------------- task reads and cancellation by tenant

\* The select by id alone.
GetTask_any(t, org) == IF t \in created THEN {t} ELSE {}

\* AutomationService.get_task: the select by id and organization_id; the
\* empty result is answered NotFoundException("Task not found").
GetTask(t, org) ==
    IF t \in created /\ tasks[t].organization_id = org THEN {t} ELSE {}

\* AutomationService.get_tasks: the tasks of an organization, with or
\* without a status.
GetTasks(org, st) ==
    { t \in created : /\ tasks[t].organization_id = org
                      /\ st # "none" => tasks[t].status = st }

\* GET /tasks/{id} and GET /tasks/{id}/progress by user u.
ReadTask(op, u, t) ==
    /\ op \in {"get_task", "get_task_progress"}
    /\ LET rows == GetTask(t, UserOrg(u))
       IN req' = [ pc |-> "done", op |-> op, user |-> u, task |-> t,
                   rows |-> rows,
                   result |-> IF rows = {} THEN "Task not found" ELSE "ok" ]
    /\ UNCHANGED << tasks, created, accounts, activity_log, cache, hc >>
    /\ UNCHANGED workers

\* GET /tasks by user u.
ListTasks(u, st) ==
    /\ req' = [ pc |-> "done", op |-> "get_tasks", user |-> u, task |-> 0,
                rows |-> GetTasks(UserOrg(u), st), result |-> "ok" ]
    /\ UNCHANGED << tasks, created, accounts, activity_log, cache, hc >>
    /\ UNCHANGED workers

\* DELETE /tasks/{id} by user u, with no execution of the task in between.
CancelTaskOf(u, t) ==
    /\ LET rows == GetTask(t, UserOrg(u))
           outcome == IF rows = {} THEN "Task not found"
                      ELSE CancelOutcome(tasks[t].status)
       IN /\ req' = [ pc |-> "done", op |-> "cancel_task", user |-> u,
                      task |-> t, rows |-> rows,
                      result |-> outcome ]
          /\ tasks' = IF outcome = "cancelled"
                      THEN [ tasks EXCEPT ![t].status = "cancelled" ]
                      ELSE tasks
    /\ UNCHANGED << created, accounts, activity_log, cache, hc >>
    /\ UNCHANGED workers

\* The creation endpoints, for one payload and no schedule, and the reads
\* and cancellations by the users of both organizations.
NextTenant ==
    \/ \E op \in {"single", "bulk"}, u \in Users, ids \in BatchInputs :
         ApiVerify(op, u, ids, CHOOSE p \in PayloadInputs : TRUE, 0)
    \/ ApiCommit
    \/ ApiEnqueue
    \/ \E op \in {"get_task", "get_task_progress"}, u \in Users, t \in Tasks :
         ReadTask(op, u, t)
    \/ \E u \in Users, st \in {"none", "pending"} : ListTasks(u, st)
    \/ \E u \in Users, t \in Tasks : CancelTaskOf(u, t)

SpecTenant == InitApi /\ [][NextTenant]_vars

\* ------------------------------------------------------------ properties

\* The statuses no transition leads out of.
Terminal == {"completed", "failed", "cancelled"}

\* The queue holds a message for task t.
Queued(t) == \E m \in queue : m.task = t

\* C1: between two daily resets at most daily_limit executions of an
\* account's tasks complete successfully, and actions_today never exceeds
\* daily_limit.
C1_QuotaRespected ==
    \A a \in Accounts :
        /\ done_today[a] <= accounts[a].daily_limit
        /\ accounts[a].actions_today <= accounts[a].daily_limit

\* C2: at most one worker holds a connected client for a given account.
C2_OneClientPerAccount ==
    \A t1, t2 \in Tasks :
        ( /\ t1 # t2
          /\ wclient[t1] = "connected"
          /\ wclient[t2] = "connected" )
        => wtask[t1].account_id # wtask[t2].account_id

\* C3: a worker commits a task as running only when the task's status is
\* pending at that moment.
C3_OnlyPendingStarts ==
    [][ \A t \in Tasks :
          (pc[t] = "loaded" /\ pc'[t] = "running")
          => tasks[t].status = "pending" ]_vars

\* C4: every failure of an attempt adds exactly 1 to retry_count; the task
\* goes back to pending while retry_count is below MAX_RETRY_ATTEMPTS
\* (failures 1 and 2) and is set to failed with the captured error once
\* retry_count has reached it (failure 3).
C4_RetryCount ==
    [][ \A t \in Tasks :
          (pc[t] = "except" /\ pc'[t] = "idle")
          => /\ tasks'[t].retry_count = tasks[t].retry_count + 1
             /\ tasks'[t].retry_count \in {1, 2}
                  => tasks'[t].status = "pending"
             /\ tasks'[t].retry_count = 3
                  => /\ tasks'[t].status = "failed"
                     /\ tasks'[t].error_message = wexc[t]
             /\ tasks'[t].status = "failed"
                  <=> tasks'[t].retry_count >= MAX_RETRY_ATTEMPTS ]_vars

\* C4 witness: the third failure has set a task to failed with its error.
C4_Witness ==
    \E t \in created :
        /\ tasks[t].retry_count = 3
        /\ tasks[t].status = "failed"
        /\ tasks[t].error_message = "Telegram error"

\* C5: a failed attempt re-enqueues the task only if retry_count after the
\* increment is below MAX_RETRY_ATTEMPTS; a task set to failed at the
\* ceiling has no further attempt scheduled.
C5_NoRetryAtCeiling ==
    [][ \A t \in Tasks :
          (pc[t] = "except" /\ pc'[t] = "idle" /\ Queued(t)')
          => /\ tasks'[t].retry_count < MAX_RETRY_ATTEMPTS
             /\ tasks'[t].status # "failed" ]_vars

\* C6: once a task is completed, failed or cancelled its status never
\* changes again.
C6_TerminalAbsorbing ==
    [][ \A t \in created :
          tasks[t].status \in Terminal
          => tasks'[t].status = tasks[t].status ]_vars

\* C7: cancel_task loads the task's current status; it writes cancelled, and
\* nothing else, when that status is pending, and for any other status it
\* ends without changing any field of any task.
C7_CancelOnlyPending ==
    [][ /\ (cancel.pc = "idle" /\ cancel'.pc = "loaded")
           => /\ cancel'.seen = tasks[cancel'.task].status
              /\ tasks' = tasks
        /\ (cancel.pc = "loaded" /\ cancel'.pc = "idle")
           => IF cancel.seen = "pending"
              THEN tasks' = [ tasks EXCEPT ![cancel.task].status = "cancelled" ]
              ELSE tasks' = tasks ]_vars

\* C7 witness: a task was cancelled and a second cancel_task has loaded it
\* as already cancelled.
C7_Witness ==
    /\ cancel.pc = "loaded"
    /\ cancel.seen = "cancelled"
    /\ tasks[cancel.task].status = "cancelled"

\* C8: every attempt that moved the task to running has called disconnect
\* exactly once when it reaches its end, whether it ends in a return or in
\* an exception, decryption and client construction failures included.
C8_DisconnectOnceAlways ==
    \A t \in Tasks : pc[t] \in {"finish", "except"} => wdisc[t] = 1

\* C9: when the account loaded for a task is not active or has used up its
\* daily limit, the attempt sets the task to failed with a descriptive
\* error_message and ends: nothing is enqueued, the task is not running, no
\* client exists, and retry_count and the accounts are unchanged.
C9_IneligibleFails ==
    [][ \A t \in Tasks :
          LET a == tasks[t].account_id IN
          ( /\ pc[t] = "loaded"
            /\ pc'[t] # "loaded"
            /\ \/ a \notin DOMAIN accounts
               \/ accounts[a].status # "active"
               \/ accounts[a].actions_today >= accounts[a].daily_limit )
          => /\ tasks'[t].status = "failed"
             /\ tasks'[t].error_message \in
                  {"Account not found", "Daily limit exceeded"}
                  \cup { "Account is " \o st : st \in AccountStatus \ {"active"} }
             /\ ~ Queued(t)'
             /\ pc'[t] = "idle"
             /\ wclient'[t] = "none"
             /\ tasks'[t].retry_count = tasks[t].retry_count
             /\ accounts' = accounts ]_vars

\* C10: an attempt whose client connected but is not authorized ends with
\* the task failed with a reason, the account auth_required, nothing
\* enqueued and actions_today not incremented.
C10_NotAuthorizedFails ==
    [][ \A t \in Tasks :
          LET a == wtask[t].account_id IN
          (pc[t] = "finish" /\ wresult[t] = "Not authorized" /\ pc'[t] = "idle")
          => /\ tasks'[t].status = "failed"
             /\ tasks'[t].error_message # "none"
             /\ accounts'[a].status = "auth_required"
             /\ accounts'[a].actions_today = accounts[a].actions_today
             /\ ~ Queued(t)' ]_vars

\* C11: an attempt whose session decryption fails ends with the task failed
\* and nothing enqueued for it: the failure is not retried.
C11_DecryptFailureNotRetried ==
    [][ \A t \in Tasks :
          (pc[t] = "except" /\ wexc[t] = "Decryption failed" /\ pc'[t] = "idle")
          => /\ tasks'[t].status = "failed"
             /\ tasks'[t].error_message # "none"
             /\ ~ Queued(t)' ]_vars

\* C12: an attempt whose payload lacks a field its action type requires
\* ends with the task failed with an error_message, nothing enqueued for it
\* and the account's actions_today not incremented.
C12_InvalidPayloadFails ==
    [][ \A t \in Tasks :
          LET a == wtask[t].account_id IN
          ( /\ pc[t] = "finish"
            /\ wresult[t] = "Invalid task parameters"
            /\ pc'[t] = "idle" )
          => /\ tasks'[t].status = "failed"
             /\ tasks'[t].error_message # "none"
             /\ accounts'[a].actions_today = accounts[a].actions_today
             /\ ~ Queued(t)' ]_vars

\* C13: an attempt whose protocol action succeeded commits the task as
\* completed with progress 100 and no error_message and makes the
\* account's actions_today one greater than it was, so that the growth of
\* actions_today is the number of completed executions.
C13_CompletionCounted ==
    [][ \A t \in Tasks :
          LET a == wtask[t].account_id IN
          (pc[t] = "finish" /\ wresult[t] = "ok" /\ pc'[t] = "idle")
          => /\ tasks'[t].status = "completed"
             /\ tasks'[t].progress = 100
             /\ tasks'[t].error_message = "none"
             /\ accounts'[a].actions_today = accounts[a].actions_today + 1 ]_vars

\* C20: cleanup_daily_limits sets actions_today of every account to 0 and
\* changes no other field of any account and no task; running it again,
\* then or later, leaves every account as the first run left it.
C20_CleanupOnlyCounter ==
    [][ CleanupDailyLimits
        => /\ \A a \in DOMAIN accounts :
                accounts'[a] = [ accounts[a] EXCEPT !.actions_today = 0 ]
           /\ tasks' = tasks
           /\ \A t \in now..MaxTime :
                ResetDailyLimits(accounts', t) = accounts' ]_vars

\* C20 as the code has it: cleanup_daily_limits sets actions_today of every
\* account to 0 and its updated_at to the time of the run, and changes no
\* other field of any account and no task; running it again, then or
\* later, changes nothing but updated_at.
C20_CleanupCounterAndStamp ==
    [][ CleanupDailyLimits
        => /\ \A a \in DOMAIN accounts :
                accounts'[a] = [ accounts[a] EXCEPT !.actions_today = 0,
                                                    !.updated_at = now ]
           /\ tasks' = tasks
           /\ \A t \in now..MaxTime :
                ResetDailyLimits(accounts', t) =
                    [ a \in DOMAIN accounts |->
                        [ accounts'[a] EXCEPT !.updated_at = t ] ] ]_vars

\* C20 witness: a cleanup has reset every counter, one of them of an
\* account that is inactive, at a time later than the accounts' creation.
C20_Witness ==
    /\ now > 0
    /\ \A a \in DOMAIN accounts :
         /\ accounts[a].actions_today = 0
         /\ accounts[a].updated_at = now
    /\ \E a \in DOMAIN accounts : accounts[a].status = "inactive"

\* C16: when an attempt ends, by a return, an exception or a time limit,
\* the task's persisted status is completed, failed, or pending with a
\* message enqueued for it; it is not running.
C16_NotRunningAtEnd ==
    [][ \A t \in Tasks :
          (pc[t] # "idle" /\ pc'[t] = "idle" /\ t \in created)
          => \/ tasks'[t].status \in {"completed", "failed"}
             \/ tasks'[t].status = "pending" /\ Queued(t)' ]_vars

\* C17: an attempt ended by the soft or the hard time limit has
\* disconnected the client it connected: no attempt ends while its client
\* is connected.
C17_DisconnectOnTimeLimit ==
    [][ \A t \in Tasks :
          (pc[t] # "idle" /\ pc'[t] = "idle") => wclient[t] # "connected" ]_vars

\* C19: a protocol action is performed only by an attempt that has slept a
\* pacing delay of MIN_DELAY_SECONDS to MAX_DELAY_SECONDS seconds, and the
\* sleep starts only in the step in which the client has connected and
\* been found authorized.
C19_ActionAfterDelay ==
    [][ \A t \in Tasks :
          /\ (pc[t] # "delaying" /\ pc'[t] = "delaying")
             => /\ pc[t] = "running"
                /\ wclient'[t] = "connected"
                /\ wdelay'[t] \in MIN_DELAY_SECONDS..MAX_DELAY_SECONDS
          /\ (pc[t] # "acting" /\ pc'[t] = "acting")
             => /\ pc[t] = "delaying"
                /\ wdelay'[t] = wdelay[t]
          /\ (wresult[t] # "ok" /\ wresult'[t] = "ok")
             => /\ pc[t] = "acting"
                /\ wclient[t] = "connected"
                /\ wdelay[t] \in MIN_DELAY_SECONDS..MAX_DELAY_SECONDS ]_vars

\* C19 witness: an attempt has slept the longest delay on its connected
\* client and is about to perform its action.
C19_Witness ==
    \E t \in created :
        /\ pc[t] = "acting"
        /\ wdelay[t] = MAX_DELAY_SECONDS
        /\ wclient[t] = "connected"

\* Account a is an account of organization org.
Owns(org, a) == a \in DOMAIN accounts /\ accounts[a].organization_id = org

\* The tasks a creation request has created so far.
Batch == created \ api.before

\* C14: a task exists only for an account of its creator's organization;
\* a request with an account that is not the caller's is rejected, and
\* while a request is being verified or is rejected no task of it exists
\* and no message of it is enqueued; an accepted request has one task for
\* each of its accounts.
C14_AllOrNothing ==
    /\ \A t \in created : Owns(UserOrg(tasks[t].user_id), tasks[t].account_id)
    /\ \A m \in queue : m.task \in created
    /\ ( /\ api.pc # "idle"
         /\ \E i \in DOMAIN api.ids : ~ Owns(UserOrg(api.user), api.ids[i]) )
       => api.pc = "rejected"
    /\ api.pc \in {"verified", "rejected"}
       => /\ Batch = {}
          /\ \A m \in queue : m.task \in api.before
    /\ api.pc \in {"committed", "done"}
       => /\ Cardinality(Batch) = Len(api.ids)
          /\ \A i \in DOMAIN api.ids :
               LET t == Cardinality(api.before) + i IN
               /\ t \in Batch
               /\ tasks[t].account_id = api.ids[i]
               /\ tasks[t].status = "pending"

\* C14 witness: a bulk request whose first account is the caller's and
\* whose second is another organization's has been rejected.
C14_Witness ==
    /\ api.pc = "rejected"
    /\ api.op = "bulk"
    /\ api.user = "u1"
    /\ api.ids = << "a1", "a2" >>
    /\ Batch = {}

\* C15: every task's organization_id is the organization_id of the
\* account the task is for.
C15_TaskInAccountsOrganization ==
    \A t \in created :
        /\ tasks[t].account_id \in DOMAIN accounts
        /\ tasks[t].organization_id = accounts[tasks[t].account_id].organization_id

\* C15 witness: tasks of two organizations exist and a worker has loaded
\* the one of the second organization.
C15_Witness ==
    /\ created = {1, 2}
    /\ tasks[1].organization_id = "o1"
    /\ tasks[2].organization_id = "o2"
    /\ tasks[2].account_id = "a2"
    /\ pc[2] = "loaded"

\* C18: no worker receives a task before the task's scheduled_for.
C18_NotBeforeSchedule ==
    [][ \A t \in Tasks :
          (pc[t] = "idle" /\ pc'[t] = "loaded")
          => tasks[t].scheduled_for <= now ]_vars

\* C27: whatever the interleaving of cancel_task with the worker of the
\* same task, cancelled is written only over pending: a task the worker has
\* moved to running or completed is never overwritten with cancelled.
C27_CancelledOnlyOverPending ==
    [][ \A t \in created :
          (tasks[t].status # "cancelled" /\ tasks'[t].status = "cancelled")
          => tasks[t].status = "pending" ]_vars

\* C30: a message_send task whose payload has a message and peer_ids, and
\* whose send does not fail, has sent the message when the action returns.
C30_PeerIdsSent ==
    [][ \A t \in Tasks :
          ( /\ pc[t] = "acting"
            /\ wtask[t].type = "message_send"
            /\ {"message", "peer_ids"} \subseteq wtask[t].fields
            /\ pc'[t] = "finish" )
          => wresult'[t] = "ok" ]_vars

\* C24: every step that changes a task, be it a creation, a cancellation
\* or an outcome the engine commits, appends a record to the activity log.
C24_TaskChangesLogged ==
    [][ (tasks' # tasks \/ created' # created)
        => Len(activity_log') = Len(activity_log) + 1 ]_vars

\* C28: no two workers are executing the same task at the same time: a
\* second delivery of a task's message does not get past the start of the
\* execution while the first is in progress.
C28_SingleExecution ==
    \A w1, w2 \in Tasks :
        ( /\ w1 # w2
          /\ pc[w1] \notin {"idle", "loaded"}
          /\ pc[w2] \notin {"idle", "loaded"} )
        => wmsg[w1].task # wmsg[w2].task

\* C23: decrypt(encrypt(b)) is b for every byte string b, the empty one
\* included, and every nonce.
C23_RoundTrip ==
    vault.pc = "decrypted" => (vault.raised = "none" /\ vault.out = vault.data)

\* C23 witness: the empty byte string has been encrypted, to a nonce and a
\* tag and nothing else, and decrypted.
C23_Witness ==
    /\ vault.pc = "decrypted"
    /\ vault.data = << >>
    /\ vault.out = << >>
    /\ vault.raised = "none"
    /\ Len(B64Decode(vault.token)) = NonceLength + TagLength

\* C21: check_account_health never raises.
C21_HealthCheckNeverRaises ==
    hc.result # "raised"

C25_StatusAfterConnect ==
    [][ ( /\ req.pc \in {"loaded", "status"}
          /\ req'.pc = "done"
          /\ req.op \in {"connect", "disconnect"}
          /\ req'.result # "raised" )
        => LET status == accounts'[req.account].status
           IN /\ req'.result = "connected" <=> status = "active"
              /\ req'.result = "auth_required" => status = "auth_required"
              /\ req'.result = "TelegramException" => status = "connection_error"
              /\ req'.result = "ok" => status = "inactive" ]_vars

\* C26: a disconnect_account that follows a disconnect_account of the same
\* account calls disconnect on no client, does not raise, and leaves no
\* cache entry, the status inactive and the row as it was.
C26_SecondDisconnect ==
    [][ ( /\ req.again
          /\ req.pc \in {"loaded", "status"} )
        => /\ req'.calls = 0
           /\ req'.result \in {"none", "ok"}
           /\ cache'[req.account] = "none"
           /\ cache' = cache
           /\ accounts' = accounts
           /\ req'.pc = "done" => accounts'[req.account].status = "inactive" ]_vars

\* C26 witness: the second disconnect_account has returned.
C26_Witness ==
    /\ req.again
    /\ req.pc = "done"
    /\ req.result = "ok"
    /\ accounts[req.account].status = "inactive"
    /\ cache[req.account] = "none"

\* C29: of the cached client, the client of a health check and the clients
\* of the task executions, at most one is connected for an account.
C29_OneClientPerAccount ==
    \A a \in AllAccounts :
        Cardinality(
            { c \in {"cache"} : cache[a] = "connected" }
            \cup { c \in {"health"} : hc.client = "connected" /\ hc.account = a }
            \cup { w \in Tasks : wclient[w] = "connected" /\ wtask[w].account_id = a }
        ) <= 1

\* C33: every task has 0 <= retry_count <= MAX_RETRY_ATTEMPTS.
C33_RetryCountBounded ==
    \A t \in created :
        /\ tasks[t].retry_count >= 0
        /\ tasks[t].retry_count <= MAX_RETRY_ATTEMPTS

\* C39: a task has progress 100 exactly when it is completed, and a
\* completed task has no error message and both timestamps.
C39_CompletedShape ==
    \A t \in created :
        /\ tasks[t].progress = 100 <=> tasks[t].status = "completed"
        /\ tasks[t].status = "completed"
             => /\ tasks[t].error_message = "none"
                /\ tasks[t].started_at
                /\ tasks[t].completed_at

\* C35: over all attempts, retries and redeliveries of a task its action is
\* performed at most once: while one task exists, at most one execution has
\* performed the action and completed.
C35_ActionAtMostOnce ==
    Cardinality(created) = 1
    => \A a \in DOMAIN done_today : done_today[a] <= 1

\* C37: the action of a task is performed only while the status of its
\* account is active.
C37_ActionOnlyOnActive ==
    [][ \A t \in Tasks :
          ( /\ pc[t] = "acting"
            /\ pc'[t] = "finish"
            /\ wresult'[t] = "ok" )
          => accounts[wtask[t].account_id].status = "active" ]_vars

\* C34: an execution that completes after a daily reset that followed its
\* load of the account leaves actions_today one above the reset value, not
\* one above the value it loaded.
C34_ResetNotUndone ==
    [][ \A t \in Tasks :
          LET a == wtask[t].account_id IN
          ( /\ pc[t] = "finish"
            /\ wresult[t] = "ok"
            /\ pc'[t] = "idle"
            /\ accounts[a].actions_today < wacct[t].actions_today )
          => accounts'[a].actions_today = accounts[a].actions_today + 1 ]_vars

\* C40: every enqueued task reaches a terminal status and then has no queue
\* message; no task stays pending or running forever. A task that no
\* message and no execution is left for stays as it is, so it is terminal.
C40_QuiescentIsTerminal ==
    \A t \in created :
        ( /\ ~ Queued(t)
          /\ pc[t] = "idle"
          /\ \A w \in Tasks : pc[w] # "idle" => wmsg[w].task # t )
        => tasks[t].status \in Terminal

\* C38: every task row the creation endpoints committed is enqueued: once
\* the request has ended, each of its tasks has a queue message or has been
\* received by a worker.
C38_CommittedIsEnqueued ==
    api.pc \notin {"verified", "committed"}
    => \A t \in created : Queued(t) \/ pc[t] # "idle"

\* C31: get_task, cancel_task and the progress read by a user of another
\* organization than the task's answer 'Task not found' and leave the
\* tasks unchanged; every read returns tasks of the caller's organization
\* only.
C31_TenantIsolated ==
    [][ ( /\ api' = api
          /\ req'.op \in {"get_task", "get_task_progress", "cancel_task",
                          "get_tasks"} )
        => /\ \A t \in req'.rows :
                tasks[t].organization_id = UserOrg(req'.user)
           /\ ( /\ req'.op # "get_tasks"
                /\ req'.task \in created
                /\ tasks[req'.task].organization_id # UserOrg(req'.user) )
              => /\ req'.result = "Task not found"
                 /\ tasks' = tasks ]_vars

\* C31 witness: a user has been refused the cancellation of a pending task
\* of the other organization.
C31_Witness ==
    /\ req.op = "cancel_task"
    /\ req.result = "Task not found"
    /\ req.task \in created
    /\ tasks[req.task].organization_id # UserOrg(req.user)
    /\ tasks[req.task].status = "pending"

\* C32: add_account creates an account with status pending, actions_today
\* 0, the requested daily_limit and the organization of the registering
\* user.
C32_RegisteredPending ==
    [][ ( /\ req'.op = "add_account"
          /\ << req, vault >>' # << req, vault >> )
        => LET a == req'.account
           IN /\ a \in DOMAIN accounts'
              /\ accounts'[a].status = "pending"
              /\ accounts'[a].actions_today = 0
              /\ accounts'[a].daily_limit = req'.limit
              /\ accounts'[a].organization_id = UserOrg(req'.user) ]_vars

\* C36: when connect_account has returned or raised, every client it
\* connected is the cache entry of its account or has been disconnected, and
\* a client it replaced in the cache has been disconnected.
C36_NoLeakedClient ==
    (req.op = "connect" /\ req.pc = "done") => req.open = 0
====
